---- MODULE Spec2Model ----
(***************************************************************************)
(* Model of src/app.py: the /get_transcript endpoint, the video-id         *)
(* extraction and the transcript fallback chain.  Strings whose characters *)
(* matter (URLs, video ids, language codes, caption texts) are sequences   *)
(* of one-character strings.  The transcript library is an external        *)
(* collaborator: every call to it has a nondeterministic outcome.          *)
(***************************************************************************)
EXTENDS Integers, Sequences, FiniteSets, TLC

\* ---------------------------------------------------------------- bounds
\* number of URL pieces concatenated into an input of extract_video_id
MaxPieces == 3
\* number of URL pieces concatenated into the url parameter of a request
MaxReqPieces == 3
\* number of caption segments an upstream fetch returns
MaxSegs == 2

\* ------------------------------------------------------ extract_video_id
\* {11} of the regular expression
VideoIdLen == 11

\* (?:v=|/v/|youtu\.be/), in the order of the alternation
Prefixes ==
  << <<"v", "=">>,
     <<"/", "v", "/">>,
     <<"y", "o", "u", "t", "u", ".", "b", "e", "/">> >>

\* \s of the character class
Whitespace == {" ", "\t", "\n", "\r", "\f"}

\* the characters [^"&?/\s] rejects
ExcludedChars == {"\"", "&", "?", "/"} \cup Whitespace

\* extract_video_id returning None
NoMatch == <<>>

Min(S) == CHOOSE x \in S : \A y \in S : x <= y

Max(S) == CHOOSE x \in S : \A y \in S : x >= y

\* the literal p occurs in url at position i
PrefixAt(url, i, p) ==
  /\ i + Len(p) - 1 <= Len(url)
  /\ SubSeq(url, i, i + Len(p) - 1) = p

\* the VideoIdLen characters after the literal p at position i
IdAt(url, i, p) == SubSeq(url, i + Len(p), i + Len(p) + VideoIdLen - 1)

\* the regular expression matches at position i through alternative p
MatchesAt(url, i, p) ==
  /\ PrefixAt(url, i, p)
  /\ i + Len(p) + VideoIdLen - 1 <= Len(url)
  /\ \A k \in (i + Len(p))..(i + Len(p) + VideoIdLen - 1) : url[k] \notin ExcludedChars

\* the start positions at which re.search can match
MatchStarts(url) ==
  {i \in 1..Len(url) : \E j \in 1..Len(Prefixes) : MatchesAt(url, i, Prefixes[j])}

\* a plausible slip: the last match is taken instead of the first
ExtractVideoId_LastMatch(url) ==
  IF MatchStarts(url) = {} THEN NoMatch
  ELSE LET i == Max(MatchStarts(url))
           j == Min({a \in 1..Len(Prefixes) : MatchesAt(url, i, Prefixes[a])})
       IN  IdAt(url, i, Prefixes[j])

\* re.search: the leftmost match, the first alternative that matches there
ExtractVideoId(url) ==
  IF MatchStarts(url) = {} THEN NoMatch
  ELSE LET i == Min(MatchStarts(url))
           j == Min({a \in 1..Len(Prefixes) : MatchesAt(url, i, Prefixes[a])})
       IN  IdAt(url, i, Prefixes[j])

\* ------------------------------------------------------------- inputs
\* two video ids, and the pieces URLs are put together from
SampleId == <<"d", "Q", "w", "4", "w", "9", "W", "g", "X", "c", "Q">>

OtherId == <<"j", "N", "Q", "X", "A", "C", "9", "I", "V", "R", "w">>

UrlPieces ==
  { Prefixes[1], Prefixes[2], Prefixes[3], SampleId, OtherId, <<"&">>, <<"?">>, <<" ">> }

RECURSIVE Flatten(_)
Flatten(ps) == IF ps = <<>> THEN <<>> ELSE Head(ps) \o Flatten(Tail(ps))

UrlsUpTo(n) ==
  {Flatten(ps) : ps \in UNION {[1..k -> UrlPieces] : k \in 0..n}}

ExtractInputs == UrlsUpTo(MaxPieces)

RequestUrls == UrlsUpTo(MaxReqPieces)

\* request.args with and without a url parameter
Requests ==
  {[has_url |-> FALSE, url |-> <<>>]} \cup
  {[has_url |-> TRUE, url |-> u] : u \in RequestUrls}

\* ------------------------------------------------- transcript library
\* languages=['en'], translate('en'), 'en' not in language_code
En == <<"e", "n">>

\* find_transcript(['hi'])
Hi == <<"h", "i">>

\* find_manually_created_transcript(['es', 'fr', 'de', 'zh', 'ja', 'ar'])
FallbackLanguages ==
  << <<"e", "s">>, <<"f", "r">>, <<"d", "e">>, <<"z", "h">>, <<"j", "a">>, <<"a", "r">> >>

\* caption texts of the segments the library returns
Texts == { <<>>, <<"a">>, <<"b", " ", "c">> }

\* a fetched transcript: a list of entries, of which only 'text' is read
SegmentLists == UNION {[1..n -> [text : Texts]] : n \in 0..MaxSegs}

\* a string built from a fixed text and an interpolated value
FString(text, arg) == [text |-> text, arg |-> arg]

NoArg == FString("", <<>>)

\* messages of upstream failures that are none of the library's three errors
UpstreamMessages ==
  {FString("Connection reset by peer", <<>>), FString("no element found", <<>>)}

Exc(type, message) == [type |-> type, message |-> message]

NoException == [type |-> "none"]

\* what a call into the library can raise
UpstreamExceptions ==
  { Exc("NoTranscriptFound", FString("Could not retrieve a transcript", <<>>)),
    Exc("TranscriptsDisabled", FString("Subtitles are disabled for this video", <<>>)),
    Exc("VideoUnavailable", FString("The video is no longer available", <<>>)) }
  \cup {Exc("Other", m) : m \in UpstreamMessages}

Raises == {[kind |-> "raise", exc |-> e] : e \in UpstreamExceptions}

\* YouTubeTranscriptApi.get_transcript(video_id, languages=['en']) and Transcript.fetch()
FetchOutcomes == {[kind |-> "return", segs |-> s] : s \in SegmentLists} \cup Raises

\* YouTubeTranscriptApi.list_transcripts(video_id)
ListOutcomes == {[kind |-> "return"]} \cup Raises

Handle(code, from) == [language_code |-> code, translated_from |-> from]

\* TranscriptList.find_transcript(['hi'])
FindHindiOutcomes == {[kind |-> "return", handle |-> Handle(Hi, <<>>)]} \cup Raises

\* TranscriptList.find_manually_created_transcript([...]); "none" is a falsy result
FindManualOutcomes ==
  {[kind |-> "return", handle |-> Handle(FallbackLanguages[i], <<>>)] :
      i \in 1..Len(FallbackLanguages)}
  \cup {[kind |-> "none"]} \cup Raises

\* Transcript.translate('en')
TranslateOutcomes == {[kind |-> "return"]} \cup Raises

\* one line of the record of upstream calls made for the current request
Call(op, out) ==
  [op |-> op,
   result |-> IF out.kind = "raise" THEN out.exc.type ELSE out.kind,
   message |-> IF out.kind = "raise" THEN out.exc.message ELSE NoArg]

\* ------------------------------------------------------------ the handler
\* sub in s, for strings
Contains(sub, s) ==
  \E i \in 1..(Len(s) - Len(sub) + 1) : SubSeq(s, i, i + Len(sub) - 1) = sub

\* a plausible slip: the test looks for 'e' instead of 'en'
NeedsTranslation_LooseTest(h) == ~Contains(<<"e">>, h.language_code)

\* 'en' not in transcript.language_code
NeedsTranslation(h) == ~Contains(En, h.language_code)

\* a plausible slip: only a missing parameter is rejected, not an empty one
VideoUrlMissing_NoneOnly(req) == ~req.has_url

\* not video_url, for video_url = request.args.get('url')
VideoUrlMissing(req) == ~req.has_url \/ req.url = <<>>

\* a plausible slip: except Exception where except NoTranscriptFound is meant
IsNoTranscriptFound_CatchAll(e) == TRUE

\* except NoTranscriptFound
IsNoTranscriptFound(e) == e.type = "NoTranscriptFound"

\* the body of jsonify({'error': ...})
ErrorBody(status, text, arg) == [status |-> status, error |-> FString(text, arg)]

\* except Exception as e: raise NoTranscriptFound(...) of the fallback block
InnerExcept(e, vid) ==
  Exc("NoTranscriptFound", FString("Transcript not found in any language for video ID ", vid))

\* the raise NoTranscriptFound(...) that ends get_available_transcript
FinalRaise(vid) ==
  Exc("NoTranscriptFound", FString("No transcript available for video ID ", vid))

RECURSIVE Join(_)
\* " ".join(texts)
Join(texts) ==
  IF texts = <<>> THEN <<>>
  ELSE IF Len(texts) = 1 THEN texts[1]
  ELSE texts[1] \o <<" ">> \o Join(Tail(texts))

\* a plausible slip: len(transcript) where len(combined_transcript) is meant
SuccessResponse_SegmentCount(segs, vid) ==
  LET combined_transcript == Join([i \in 1..Len(segs) |-> segs[i].text])
  IN  [status |-> 200, transcript |-> combined_transcript, video_id |-> vid,
       length |-> Len(segs)]

\* the 200 response of get_transcript
SuccessResponse(segs, vid) ==
  LET combined_transcript == Join([i \in 1..Len(segs) |-> segs[i].text])
  IN  [status |-> 200, transcript |-> combined_transcript, video_id |-> vid,
       length |-> Len(combined_transcript)]

\* a plausible slip: NoTranscriptFound is answered like VideoUnavailable
ErrorResponse_NotFoundAs404(e, vid) ==
  IF e.type = "TranscriptsDisabled"
    THEN ErrorBody(403, "Transcripts are disabled for this video.", NoArg) @@ [video_id |-> vid]
  ELSE IF e.type \in {"VideoUnavailable", "NoTranscriptFound"}
    THEN ErrorBody(404, "Video is unavailable.", NoArg) @@ [video_id |-> vid]
  ELSE ErrorBody(500, "Failed to retrieve transcript: ", e.message) @@ [video_id |-> vid]

\* the except clauses around get_available_transcript
ErrorResponse(e, vid) ==
  IF e.type = "TranscriptsDisabled"
    THEN ErrorBody(403, "Transcripts are disabled for this video.", NoArg) @@ [video_id |-> vid]
  ELSE IF e.type = "VideoUnavailable"
    THEN ErrorBody(404, "Video is unavailable.", NoArg) @@ [video_id |-> vid]
  ELSE ErrorBody(500, "Failed to retrieve transcript: ", e.message) @@ [video_id |-> vid]

\* what get_transcript answers once get_available_transcript has ended
Answer(exc, segs, vid) ==
  IF exc = NoException THEN SuccessResponse(segs, vid) ELSE ErrorResponse(exc, vid)

\* pc          where the handling of the current request stands
\* request     request.args of the current request
\* video_id    video_id of get_transcript
\* transcript  transcript of get_available_transcript: the candidate handle
\* segments    what get_available_transcript returned, with the handle it came from
\* calls       the upstream calls made for the current request, in order
\* raised      the exception get_available_transcript ended with
\* response    the response of get_transcript
\* The segments the library returns are well-formed lists of entries with a
\* 'text' string, so the outermost except clause of get_transcript is never
\* entered and has no action here.
VARIABLES pc, request, video_id, transcript, segments, calls, raised, response

vars == <<pc, request, video_id, transcript, segments, calls, raised, response>>

NoRequest == [has_url |-> FALSE, url |-> <<>>]

NoHandle == Handle(<<>>, <<>>)

NoSegments == [fetched |-> FALSE, source |-> NoHandle, entries |-> <<>>]

NoResponse == [status |-> 0]

Init ==
  /\ pc = "idle"
  /\ request = NoRequest
  /\ video_id = NoMatch
  /\ transcript = NoHandle
  /\ segments = NoSegments
  /\ calls = <<>>
  /\ raised = NoException
  /\ response = NoResponse

\* a GET /get_transcript request arrives
ReceiveRequest ==
  /\ pc = "idle"
  /\ \E r \in Requests : request' = r
  /\ pc' = "validate"
  /\ UNCHANGED <<video_id, transcript, segments, calls, raised, response>>

\* get_transcript up to the call of get_available_transcript
Validate ==
  /\ pc = "validate"
  /\ IF VideoUrlMissing(request)
       THEN /\ response' = ErrorBody(400, "You must provide a YouTube video URL.", NoArg)
            /\ pc' = "done"
            /\ UNCHANGED video_id
     ELSE IF ExtractVideoId(request.url) = NoMatch
       THEN /\ response' = ErrorBody(400, "Invalid YouTube URL format.", NoArg)
            /\ pc' = "done"
            /\ UNCHANGED video_id
     ELSE /\ video_id' = ExtractVideoId(request.url)
          /\ pc' = "get_transcript"
          /\ UNCHANGED response
  /\ UNCHANGED <<request, transcript, segments, calls, raised>>

\* get_available_transcript ends by raising exc; get_transcript answers
Fail(exc) ==
  /\ raised' = exc
  /\ response' = Answer(exc, <<>>, video_id)
  /\ pc' = "done"
  /\ UNCHANGED <<transcript, segments>>

\* get_available_transcript returns the segments fetched from handle h
Succeed(h, segs) ==
  /\ segments' = [fetched |-> TRUE, source |-> h, entries |-> segs]
  /\ response' = Answer(NoException, segs, video_id)
  /\ pc' = "done"
  /\ UNCHANGED <<transcript, raised>>

\* control moves on inside get_available_transcript
Goto(label) ==
  /\ pc' = label
  /\ UNCHANGED <<segments, raised, response>>

\* YouTubeTranscriptApi.get_transcript(video_id, languages=['en'])
DirectFetch ==
  /\ pc = "get_transcript"
  /\ \E out \in FetchOutcomes :
       /\ calls' = Append(calls, Call("get_transcript", out))
       /\ IF out.kind = "return" THEN Succeed(Handle(En, <<>>), out.segs)
          ELSE IF IsNoTranscriptFound(out.exc)
            THEN Goto("list_transcripts") /\ UNCHANGED transcript
          ELSE Fail(out.exc)
  /\ UNCHANGED <<request, video_id>>

\* a plausible slip: a failed listing is tried again
ListTranscripts_Retry ==
  /\ pc = "list_transcripts"
  /\ \E out \in ListOutcomes :
       /\ calls' = Append(calls, Call("list_transcripts", out))
       /\ IF out.kind = "return"
            THEN Goto("find_transcript") /\ UNCHANGED transcript
          ELSE Goto("list_transcripts") /\ UNCHANGED transcript
  /\ UNCHANGED <<request, video_id>>

\* YouTubeTranscriptApi.list_transcripts(video_id)
ListTranscripts ==
  /\ pc = "list_transcripts"
  /\ \E out \in ListOutcomes :
       /\ calls' = Append(calls, Call("list_transcripts", out))
       /\ IF out.kind = "return"
            THEN Goto("find_transcript") /\ UNCHANGED transcript
          ELSE Fail(InnerExcept(out.exc, video_id))
  /\ UNCHANGED <<request, video_id>>

\* where a found candidate goes: translation unless it is already English
AfterCandidate(h) == IF NeedsTranslation(h) THEN "translate" ELSE "fetch"

\* transcript_list.find_transcript(['hi'])
FindHindi ==
  /\ pc = "find_transcript"
  /\ \E out \in FindHindiOutcomes :
       /\ calls' = Append(calls, Call("find_transcript", out))
       /\ IF out.kind = "return"
            THEN Goto(AfterCandidate(out.handle)) /\ transcript' = out.handle
          ELSE IF IsNoTranscriptFound(out.exc)
            THEN Goto("find_manually_created_transcript") /\ UNCHANGED transcript
          ELSE Fail(InnerExcept(out.exc, video_id))
  /\ UNCHANGED <<request, video_id>>

\* transcript_list.find_manually_created_transcript([...])
FindManual ==
  /\ pc = "find_manually_created_transcript"
  /\ \E out \in FindManualOutcomes :
       /\ calls' = Append(calls, Call("find_manually_created_transcript", out))
       /\ IF out.kind = "return"
            THEN Goto(AfterCandidate(out.handle)) /\ transcript' = out.handle
          ELSE IF out.kind = "none"
            THEN /\ raised' = FinalRaise(video_id)
                 /\ response' = Answer(FinalRaise(video_id), <<>>, video_id)
                 /\ pc' = "done"
                 /\ UNCHANGED <<transcript, segments>>
          ELSE Fail(InnerExcept(out.exc, video_id))
  /\ UNCHANGED <<request, video_id>>

\* transcript.translate('en')
Translate ==
  /\ pc = "translate"
  /\ \E out \in TranslateOutcomes :
       /\ calls' = Append(calls, Call("translate", out))
       /\ IF out.kind = "return"
            THEN Goto("fetch") /\ transcript' = Handle(En, transcript.language_code)
          ELSE Fail(InnerExcept(out.exc, video_id))
  /\ UNCHANGED <<request, video_id>>

\* transcript.fetch()
HandleFetch ==
  /\ pc = "fetch"
  /\ \E out \in FetchOutcomes :
       /\ calls' = Append(calls, Call("fetch", out))
       /\ IF out.kind = "return" THEN Succeed(transcript, out.segs)
          ELSE Fail(InnerExcept(out.exc, video_id))
  /\ UNCHANGED <<request, video_id>>

\* the response is sent; nothing of the request outlives it
Finish ==
  /\ pc = "done"
  /\ pc' = "idle"
  /\ request' = NoRequest
  /\ video_id' = NoMatch
  /\ transcript' = NoHandle
  /\ segments' = NoSegments
  /\ calls' = <<>>
  /\ raised' = NoException
  /\ response' = NoResponse

Next ==
  \/ ReceiveRequest
  \/ Validate
  \/ DirectFetch
  \/ ListTranscripts
  \/ FindHindi
  \/ FindManual
  \/ Translate
  \/ HandleFetch
  \/ Finish

Spec == Init /\ [][Next]_vars

\* ------------------------------------------- extract_video_id on its own
InitExtract ==
  /\ pc = "extract_call"
  /\ request \in {[has_url |-> TRUE, url |-> u] : u \in ExtractInputs}
  /\ video_id = NoMatch
  /\ transcript = NoHandle
  /\ segments = NoSegments
  /\ calls = <<>>
  /\ raised = NoException
  /\ response = NoResponse

ExtractCall ==
  /\ pc = "extract_call"
  /\ video_id' = ExtractVideoId(request.url)
  /\ pc' = "extract_return"
  /\ UNCHANGED <<request, transcript, segments, calls, raised, response>>

NextExtract == ExtractCall

SpecExtract == InitExtract /\ [][NextExtract]_vars

\* ------------------------------------------------------------ properties
Made(op) == \E i \in DOMAIN calls : calls[i].op = op

Returned(op) == \E i \in DOMAIN calls : calls[i].op = op /\ calls[i].result = "return"

CandidateLanguages == {Hi} \cup {FallbackLanguages[i] : i \in 1..Len(FallbackLanguages)}

\* C1: the upstream calls follow the fixed order direct English fetch,
\* list_transcripts, Hindi search, manual-fallback search; list_transcripts
\* is called only after the direct fetch reported NoTranscriptFound, the
\* manual search only after the Hindi search reported NoTranscriptFound; a
\* successful direct fetch ends the resolution with its segments and no
\* other call, and a found Hindi transcript excludes the manual search.
C1_OrderedPolicy ==
  /\ calls # <<>> => calls[1].op = "get_transcript"
  /\ \A i \in DOMAIN calls :
       /\ calls[i].op = "get_transcript" => i = 1
       /\ calls[i].op = "list_transcripts" =>
            i = 2 /\ calls[1].result = "NoTranscriptFound"
       /\ calls[i].op = "find_transcript" =>
            i = 3 /\ calls[2].op = "list_transcripts" /\ calls[2].result = "return"
       /\ calls[i].op = "find_manually_created_transcript" =>
            i = 4 /\ calls[3].op = "find_transcript" /\ calls[3].result = "NoTranscriptFound"
  /\ Returned("get_transcript") =>
       /\ Len(calls) = 1
       /\ pc = "done"
       /\ segments.fetched
       /\ segments.source = Handle(En, <<>>)
       /\ raised = NoException
       /\ response.status = 200
  /\ Returned("find_transcript") => ~Made("find_manually_created_transcript")

\* C1 witness: a resolution that went through all four steps and succeeded
C1_Witness ==
  /\ pc = "done"
  /\ Returned("find_manually_created_transcript")
  /\ segments.fetched
  /\ response.status = 200

\* C2: when the direct English fetch reported NoTranscriptFound and the
\* resolution succeeds through a fallback candidate, the segments returned
\* are fetched from the candidate's translation into 'en': translate('en')
\* returned before fetch() was called, and no raw candidate is ever fetched.
C2_FallbackTranslated ==
  /\ Made("fetch") =>
       /\ \E i, j \in DOMAIN calls :
            /\ i < j
            /\ calls[i].op = "translate" /\ calls[i].result = "return"
            /\ calls[j].op = "fetch"
       /\ transcript.language_code = En
       /\ transcript.translated_from \in CandidateLanguages
  /\ (pc = "done" /\ segments.fetched /\ calls[1].result = "NoTranscriptFound") =>
       /\ segments.source.language_code = En
       /\ segments.source.translated_from \in CandidateLanguages
       /\ Returned("find_transcript") => segments.source.translated_from = Hi
       /\ Returned("translate")

\* C2 witness: only a Hindi transcript exists and its translation is served
C2_Witness ==
  /\ pc = "done"
  /\ segments.fetched
  /\ calls[1].result = "NoTranscriptFound"
  /\ Returned("find_transcript")
  /\ segments.source = Handle(En, Hi)
  /\ response.status = 200

\* C3: whenever some upstream call of the request raised TranscriptsDisabled,
\* the response is 403 'Transcripts are disabled for this video.' with the
\* extracted video_id.
C3_DisabledIs403 ==
  (pc = "done" /\ \E i \in DOMAIN calls : calls[i].result = "TranscriptsDisabled") =>
    response =
      ErrorBody(403, "Transcripts are disabled for this video.", NoArg)
        @@ [video_id |-> video_id]

\* C4: whenever some upstream call of the request raised VideoUnavailable,
\* the response is 404 'Video is unavailable.' with the extracted video_id.
C4_UnavailableIs404 ==
  (pc = "done" /\ \E i \in DOMAIN calls : calls[i].result = "VideoUnavailable") =>
    response =
      ErrorBody(404, "Video is unavailable.", NoArg) @@ [video_id |-> video_id]

\* C5: whenever some upstream call of the request failed with another error,
\* the response is 500 with the video_id and the error 'Failed to retrieve
\* transcript: <message>' carrying the message of that upstream failure.
C5_OtherIs500WithMessage ==
  \A i \in DOMAIN calls :
    (pc = "done" /\ calls[i].result = "Other") =>
      response =
        ErrorBody(500, "Failed to retrieve transcript: ", calls[i].message)
          @@ [video_id |-> video_id]

\* the upstream reported no English, no Hindi and no manual fallback transcript
NoTranscriptAnywhere ==
  /\ Len(calls) = 4
  /\ calls[1].result = "NoTranscriptFound"
  /\ calls[2].result = "return"
  /\ calls[3].result = "NoTranscriptFound"
  /\ calls[4].result \in {"NoTranscriptFound", "none"}

\* C6: a video with no English, no Hindi and no manual es/fr/de/zh/ja/ar
\* transcript (the manual search raising or returning nothing) makes the
\* resolution fail as NoTranscriptFound and the endpoint answer 500 with an
\* error message and the video_id, never 200.
C6_NoTranscriptIs500 ==
  (pc = "done" /\ NoTranscriptAnywhere) =>
    /\ raised.type = "NoTranscriptFound"
    /\ ~segments.fetched
    /\ response.status = 500
    /\ DOMAIN response = {"status", "error", "video_id"}
    /\ response.error.text = "Failed to retrieve transcript: "
    /\ response.error.arg.text # ""
    /\ response.video_id = video_id

\* C6 witness: the manual search returned nothing and the request ended
C6_Witness ==
  /\ pc = "done"
  /\ NoTranscriptAnywhere
  /\ calls[4].result = "none"

\* a call that failed
Failed(c) == c.result \notin {"return", "none"}

\* a failure after which the resolution goes on to its next step
FallsThrough(c) ==
  /\ c.result = "NoTranscriptFound"
  /\ c.op \in {"get_transcript", "find_transcript"}

\* C7: within one request every upstream operation is called at most once,
\* and a failed call, other than NoTranscriptFound from the direct English
\* fetch or the Hindi search, is the last upstream call of the request.
C7_NoRetry ==
  /\ \A i, j \in DOMAIN calls : calls[i].op = calls[j].op => i = j
  /\ \A i \in DOMAIN calls :
       (Failed(calls[i]) /\ ~FallsThrough(calls[i])) => (i = Len(calls) /\ pc = "done")

\* C7 witness: the translation failed after three earlier calls
C7_Witness ==
  /\ pc = "done"
  /\ Len(calls) = 4
  /\ calls[4].op = "translate"
  /\ calls[4].result = "Other"

\* C8: a missing or empty url is answered 400 'You must provide a YouTube
\* video URL.', a url without a video-id pattern 400 'Invalid YouTube URL
\* format.'; neither body has a video_id and no upstream call is made.
C8_InvalidInput ==
  /\ (pc = "done" /\ (~request.has_url \/ request.url = <<>>)) =>
       /\ response = ErrorBody(400, "You must provide a YouTube video URL.", NoArg)
       /\ calls = <<>>
  /\ (pc = "done" /\ request.has_url /\ request.url # <<>>
        /\ MatchStarts(request.url) = {}) =>
       /\ response = ErrorBody(400, "Invalid YouTube URL format.", NoArg)
       /\ calls = <<>>
  /\ (pc = "done" /\ response.status = 400) => "video_id" \notin DOMAIN response

\* C8 witness: an empty url parameter was rejected
C8_Witness ==
  /\ pc = "done"
  /\ request.has_url
  /\ request.url = <<>>
  /\ response.status = 400

\* where the i-th text starts in the texts joined by single spaces
RECURSIVE Offset(_, _)
Offset(texts, i) == IF i = 1 THEN 0 ELSE Offset(texts, i - 1) + Len(texts[i - 1]) + 1

\* t is the texts in order, separated by single spaces
JoinedBySpaces(t, texts) ==
  /\ texts = <<>> => t = <<>>
  /\ texts # <<>> => Len(t) = Offset(texts, Len(texts)) + Len(texts[Len(texts)])
  /\ \A i \in DOMAIN texts :
       /\ SubSeq(t, Offset(texts, i) + 1, Offset(texts, i) + Len(texts[i])) = texts[i]
       /\ i > 1 => t[Offset(texts, i)] = " "

\* C9: whenever the resolution yields segments, the response is 200 with
\* transcript the segment texts joined in order by single spaces (empty for
\* no segments), video_id the extracted id and length the character count
\* of transcript.
C9_SuccessBody ==
  (pc = "done" /\ segments.fetched) =>
    /\ DOMAIN response = {"status", "transcript", "video_id", "length"}
    /\ response.status = 200
    /\ JoinedBySpaces(response.transcript,
                      [i \in DOMAIN segments.entries |-> segments.entries[i].text])
    /\ response.video_id = video_id
    /\ video_id # NoMatch
    /\ response.length = Len(response.transcript)

\* C9 witness: two segments, one of them with a space inside, were served
C9_Witness ==
  /\ pc = "done"
  /\ segments.fetched
  /\ Len(segments.entries) = 2
  /\ segments.entries[2].text = <<"a">>
  /\ response.transcript = <<"b", " ", "c", " ", "a">>
  /\ response.length = 5

\* v= at position i of url, followed by VideoIdLen characters of an id
VEqualsToken(url, i) == MatchesAt(url, i, Prefixes[1])

\* C10 as stated: for a URL containing v= followed by an 11-character
\* token, extract_video_id returns exactly the token that follows a v= of
\* the URL (read in the claim's favour when v= occurs more than once).
C10_AnyVEquals ==
  (pc = "extract_return" /\ \E i \in 1..Len(request.url) : VEqualsToken(request.url, i)) =>
    \E i \in 1..Len(request.url) :
      VEqualsToken(request.url, i) /\ video_id = IdAt(request.url, i, Prefixes[1])

\* C10 amended: extract_video_id returns the token after v= when no match of
\* v=, /v/ or youtu.be/ followed by 11 id characters starts further left.
C10_LeftmostVEquals ==
  pc = "extract_return" =>
    \A i \in 1..Len(request.url) :
      ( /\ VEqualsToken(request.url, i)
        /\ \A k \in 1..(i - 1) : \A j \in 1..Len(Prefixes) :
             ~MatchesAt(request.url, k, Prefixes[j]) )
      => video_id = IdAt(request.url, i, Prefixes[1])

\* C10 witness: watch?v=dQw4w9WgXcQ-like input, the id after v= is returned
C10_Witness ==
  /\ pc = "extract_return"
  /\ request.url = <<"?">> \o Prefixes[1] \o SampleId
  /\ video_id = SampleId

====
